---------------------------- MODULE Spec2Model ----------------------------
(***************************************************************************)
(* Model of the port simulation of src/clases_sim.py: the SimPy event     *)
(* loop (env.run), the resources, containers and events of Puerto and     *)
(* Bodega, the processes Buque, Camion, CamionDedicado, CamionBodega, the *)
(* generators and the monitors, and the driver simulacion().              *)
(*                                                                         *)
(* Time is counted in ticks.  The durations of the program are module     *)
(* globals that the UI overrides per run (src/ui_puertov2.py:790-806);    *)
(* here they are small tick counts that keep the order relations of the   *)
(* defaults (TIEMPO_LLEGADA_CAMIONES < TIEMPO_ATRAQUE, ...), and so are   *)
(* the day and the four meal breaks, which stay disjoint and apart.       *)
(*                                                                         *)
(* One scheduler step (env.step) pops the first event of the heap and     *)
(* runs one callback: a process resumes and runs up to its next yield.    *)
(* An event with several waiters is kept as one heap entry per waiter,    *)
(* consecutive and in waiting order, which is the order in which          *)
(* Event callbacks run.                                                    *)
(***************************************************************************)
EXTENDS Integers, Sequences, FiniteSets, TLC

\* ------------------------------------------------------------ bounds
\* Ship objects created in one run (pre-seeded plus generated).
MaxBuques == 3
\* Ordinary trucks created in one run.
MaxCamiones == 2
\* Warehouse-loading trucks created in one run.
MaxCamionesBodega == 2
\* Largest value of the parameter camiones_dedicados.
MaxDedicados == 2
\* Largest value of the parameter buques_inicio_cola.
MaxInicio == 3
\* The horizon env.run(until=tiempo), in ticks.
Tiempo == 16

\* --------------------------------------------------- program constants
TIEMPO_PUERTA_ENTRADA == 2
TIEMPO_CARGAR_EN_CHUTE == 1
TIEMPO_ATRAQUE == 2
TIEMPO_LLEGADA_CAMIONES == 1
TIEMPO_A_BODEGA == 1
TIEMPO_DESCARGAR_EN_BODEGA == 1
TIEMPO_CARGAR_EN_BODEGA == 1
TIEMPO_SALIDA_DE_BODEGA == 1
MAXIMO_RADA == 1
\* monitor_cola_camiones sleeps 0.5, the dedicated truck sleeps 2 after it.
PERIODO_MONITOR_CAMIONES == 1
DEMORA_DEDICADO == 1
\* The day (1440 minutes) in ticks.
DIA == 8
CAPACIDAD_CHUTES == 5

\* Values the random draws of a run may take.
\* choice(buques['tonelaje'])
Tonelajes == {2}
\* choice(camiones['capacidad'])  (rows with capacidad > 20 only)
Capacidades == {1, 2}
\* choice(buques['minutos_delay'].values): inicio_descarga - primera_espia of
\* the historical rows, in ticks; the table is not filtered by sign
Delays == {-1, 0, 4}
\* random.expovariate(tasa_llegada_buques)
DeltasBuques == {3}
\* random.expovariate(tasa_llegada[turno])
DeltasCamiones == {1, 3}
\* random.random() in [0,1), in hundredths
Sorteos == {0, 50, 99}
\* the parameter prob, in hundredths (simulacion() takes any number)
Probs == {0, 50, 100, 150}
\* the parameter grano
Granos == {0, 1}
\* the parameter cap
Caps == {2}

Recursos == {"frente_atraque", "puerta_entrada", "puerta_salida", "chutes",
             "cargar_en_bodega", "descargar_en_bodega"}

Eventos == {"iniciar_llegada_camiones", "inicio_descarga_evento",
            "fin_descarga_evento", "falta_camiones_event", "bodega_recargada"}

Generadores == {"generar_buques", "generar_camiones_puerto",
                "generar_camiones_bodega", "monitor_cola_buques",
                "monitor_cola_camiones"}

VARIABLES
    param,            \* the arguments of simulacion(): prob, camiones_dedicados, grano, cap, buques_inicio_cola
    now,              \* env.now
    estado,           \* "run", "fin" (horizon reached or heap empty), "error" (a process raised)
    queue,            \* the event heap, in processing order
    running,          \* the process that is inside a loop without having yielded, or NADIE
    users,            \* users[r]: the processes holding resource r
    resq,             \* resq[r]: the queue of resource r (pending requests)
    grano_muelle,     \* puerto.grano_muelle.level
    grano_bodega,     \* bodega.grano_bodega.level
    espera,           \* espera[e]: the processes waiting on the current (pending) event e
    current_buque,    \* puerto.current_buque (0: None)
    buques_peridos,   \* puerto.buques_peridos
    buques_atendidos, \* puerto.buques_atendidos
    datos_rada,       \* puerto.datos_rada
    eventos_bodega,   \* bodega.eventos_bodega
    buque,            \* the Buque objects
    n_buques,         \* Buque objects created so far
    i_buques,         \* generar_buques: i_buques
    camion,           \* the Camion objects
    n_camiones,       \* Camion objects created so far (camion_puerto_id)
    dedicado,         \* the CamionDedicado objects
    cbodega,          \* the CamionBodega objects
    n_cbodega,        \* CamionBodega objects created so far (camion_bodega_id)
    pcg,              \* where each generator or monitor is
    llegadas,         \* history: arrivals produced by generar_buques
    llegadas_llenas,  \* history: arrivals that found len(queue) >= MAXIMO_RADA
    fin_disparos,     \* history: fires of fin_descarga_evento since the last dump
    retirado          \* history: retirado[s]: tonnes withdrawn by trucks credited to ship s

vars == <<param, now, estado, queue, running, users, resq, grano_muelle,
          grano_bodega, espera, current_buque, buques_peridos,
          buques_atendidos, datos_rada, eventos_bodega, buque, n_buques,
          i_buques, camion, n_camiones, dedicado, cbodega, n_cbodega, pcg,
          llegadas, llegadas_llenas, fin_disparos, retirado>>

NADIE == <<"nadie", 0>>

Min(a, b) == IF a <= b THEN a ELSE b

\* ------------------------------------------------------------ the heap
\* An entry: t (time), u (1: URGENT, process start; 2: NORMAL), k (what the
\* callback is) and p (the process resumed, or the resource of a Release).
Ev(t, u, k, p) == [t |-> t, u |-> u, k |-> k, p |-> p]

Antes(a, b) == a.t < b.t \/ (a.t = b.t /\ a.u <= b.u)

\* heapq push with key (time, priority, eid): after every entry that is not later.
RECURSIVE Pos(_, _, _)
Pos(q, e, i) ==
    IF i > Len(q) THEN i
    ELSE IF Antes(q[i], e) THEN Pos(q, e, i + 1) ELSE i

Schedule(q, e) ==
    LET i == Pos(q, e, 1)
    IN  SubSeq(q, 1, i - 1) \o <<e>> \o SubSeq(q, i, Len(q))

\* The entry env.step() pops next, and the heap without it.
T == Head(queue).t
Q == Tail(queue)

\* env.timeout(d) yielded by process p at time t
TimeoutMal(q, t, d, p) == Schedule(q, Ev(t + d + 1, 2, "resume", p))
Timeout(q, t, d, p) == Schedule(q, Ev(t + d, 2, "resume", p))

\* env.process(...): the Initialize event, URGENT
Process(q, t, p) == Schedule(q, Ev(t, 1, "resume", p))

\* event.succeed() of an event with waiters ws: every waiter resumes, in order
SucceedMal(q, t, ws) == IF ws = <<>> THEN q ELSE Schedule(q, Ev(t, 2, "resume", Head(ws)))
RECURSIVE Succeed(_, _, _)
Succeed(q, t, ws) ==
    IF ws = <<>> THEN q
    ELSE Succeed(Schedule(q, Ev(t, 2, "resume", Head(ws))), t, Tail(ws))

\* a process raised: its Process event fails and env.step re-raises it
Fail(q, t) == Schedule(q, Ev(t, 2, "crash", NADIE))

ListoMal(p) ==
    /\ estado = "run" /\ running = NADIE /\ queue # <<>> /\ T <= Tiempo
    /\ Head(queue).k = "resume" /\ Head(queue).p = p

\* env.step() is about to resume process p
Listo(p) ==
    /\ estado = "run"
    /\ running = NADIE
    /\ queue # <<>>
    /\ T < Tiempo
    /\ Head(queue).k = "resume"
    /\ Head(queue).p = p

\* ------------------------------------------------------- simpy.Resource
CapacidadMal(r) == IF r = "chutes" THEN CAPACIDAD_CHUTES ELSE 2
Capacidad(r) == IF r = "chutes" THEN CAPACIDAD_CHUTES ELSE 1

\* Resource._do_put: a request is granted while a slot is free
ConcedeMal(us, r) == Cardinality(us[r]) <= Capacidad(r)
Concede(us, r) == Cardinality(us[r]) < Capacidad(r)

\* resource.request() by p: users, queue and heap after it
ReqUsers(us, r, p) == IF Concede(us, r) THEN [us EXCEPT ![r] = @ \cup {p}] ELSE us
ReqColaMal(us, rq, r, p) == IF Concede(us, r) THEN rq ELSE [rq EXCEPT ![r] = <<p>> \o @]
ReqCola(us, rq, r, p) == IF Concede(us, r) THEN rq ELSE [rq EXCEPT ![r] = Append(@, p)]
ReqHeap(us, q, t, r, p) ==
    IF Concede(us, r) THEN Schedule(q, Ev(t, 2, "resume", p)) ELSE q

\* resource.release(req) by p: Resource._do_get drops the user at once; the
\* Release event is processed later and then serves the queue
RelUsers(us, r, p) == [us EXCEPT ![r] = @ \ {p}]
RelHeapMal(q, t, r) == Schedule(q, Ev(t + 1, 2, "release", <<r, 0>>))
RelHeap(q, t, r) == Schedule(q, Ev(t, 2, "release", <<r, 0>>))

\* ----------------------------------------------------------- processes
B(i) == <<"buque", i>>
C(i) == <<"camion", i>>
D(i) == <<"dedicado", i>>
CB(i) == <<"cbodega", i>>
G(g) == <<g, 0>>

BuqueNuevo ==
    [pc |-> "nuevo", id_buque |-> 0, tonelaje |-> 0,
     num_camiones_normales |-> 0, num_camiones_dedicados |-> 0,
     largo_cola_al_arribar |-> 0, arribo |-> -1, otorgado |-> -1,
     primera_espia |-> -1,
     tiempo_espera |-> -1, inicio_descarga |-> -1, tiempo_descarga |-> -1]

\* Buque.__init__
Buque(id, ton, cola) ==
    [BuqueNuevo EXCEPT !.pc = "creado", !.id_buque = id, !.tonelaje = ton,
                       !.largo_cola_al_arribar = cola]

\* (origen: the ship that was current_buque when the truck was created, 0 for
\* None; a record of the model, the code keeps no such attribute)
CamionNuevo ==
    [pc |-> "nuevo", capacidad |-> 0, carga |-> 0, pedido |-> 0, origen |-> 0]

\* ---------------------------------------------------------- simulacion
\* The state when env.run() starts: the processes are created, none has run.
RECURSIVE Arranque(_, _)
Arranque(q, ps) ==
    IF ps = <<>> THEN q
    ELSE Arranque(Schedule(q, Ev(0, 1, "resume", Head(ps))), Tail(ps))

ProcesosIniciales(par) ==
    <<G("generar_buques"), G("generar_camiones_puerto"), G("monitor_cola_buques")>>
    \o [i \in 1..par.buques_inicio_cola |-> B(i)]
    \o (IF par.camiones_dedicados > 0
        THEN <<G("generar_camiones_bodega"), G("monitor_cola_camiones")>>
             \o [i \in 1..par.camiones_dedicados |-> D(i)]
        ELSE <<>>)

\* The state when env.run() starts, for a run whose parameter
\* camiones_dedicados is one of ds.
Inicio(ds) ==
    /\ param \in [prob : Probs, camiones_dedicados : ds,
                  grano : Granos, cap : Caps,
                  buques_inicio_cola : 0..MaxInicio]
    /\ param.buques_inicio_cola <= MaxBuques
    \* grano and cap are read only when the warehouse is built
    /\ param.camiones_dedicados = 0 => param.grano = 0
    /\ now = 0
    /\ estado = "run"
    /\ queue = Arranque(<<>>, ProcesosIniciales(param))
    /\ running = NADIE
    /\ users = [r \in Recursos |-> {}]
    /\ resq = [r \in Recursos |-> <<>>]
    /\ grano_muelle = 0
    \* Bodega.__init__ with grano > 0 fires bodega_recargada and replaces it by a
    \* new event: no process waits on it yet, and the new event has not fired
    /\ grano_bodega = IF param.camiones_dedicados > 0 THEN param.grano ELSE 0
    /\ espera = [e \in Eventos |-> <<>>]
    /\ current_buque = 0
    /\ buques_peridos = 0
    /\ buques_atendidos = <<>>
    /\ datos_rada = <<>>
    /\ eventos_bodega = <<>>
    /\ \E ton \in [1..MaxBuques -> Tonelajes] :
          buque = [i \in 1..MaxBuques |->
                     IF i <= param.buques_inicio_cola
                     THEN Buque(i - 1, ton[i], 0) ELSE BuqueNuevo]
    /\ n_buques = param.buques_inicio_cola
    /\ i_buques = 0
    /\ camion = [i \in 1..MaxCamiones |-> CamionNuevo]
    /\ n_camiones = 0
    /\ dedicado = [i \in 1..MaxDedicados |->
                     [CamionNuevo EXCEPT !.capacidad = param.cap,
                        !.pc = IF i <= param.camiones_dedicados THEN "creado" ELSE "nuevo"]]
    /\ cbodega = [i \in 1..MaxCamionesBodega |-> CamionNuevo]
    /\ n_cbodega = 0
    /\ pcg = [g \in Generadores |->
                IF g \in {"generar_camiones_bodega", "monitor_cola_camiones"}
                   /\ param.camiones_dedicados = 0
                THEN "nuevo" ELSE "creado"]
    /\ llegadas = 0
    /\ llegadas_llenas = 0
    /\ fin_disparos = 0
    /\ retirado = [i \in 1..MaxBuques |-> 0]

\* Runs without a warehouse or with one dedicated truck.
Init == Inicio(0..(MaxDedicados - 1))

\* Runs with MaxDedicados dedicated trucks.
InitDedicados == Inicio({MaxDedicados})

\* What an action of one kind of process leaves alone.
SinCamiones == UNCHANGED <<camion, n_camiones, dedicado, cbodega, n_cbodega>>
SinBodega == UNCHANGED <<grano_bodega, eventos_bodega>>
SinLlegadas == UNCHANGED <<llegadas, llegadas_llenas, buques_peridos, n_buques, i_buques>>
SinRegistros == UNCHANGED <<buques_atendidos, datos_rada>>

\* ------------------------------------------------- Buque.proceso_buque
\* self.arribo = env.now; with puerto.frente_atraque.request(): yield request
BuqueArribo(s) ==
    /\ Listo(B(s)) /\ buque[s].pc = "creado"
    /\ now' = T
    /\ buque' = [buque EXCEPT ![s].pc = "request_muelle", ![s].arribo = T]
    /\ users' = ReqUsers(users, "frente_atraque", B(s))
    /\ resq' = ReqCola(users, resq, "frente_atraque", B(s))
    /\ queue' = ReqHeap(users, Q, T, "frente_atraque", B(s))
    /\ UNCHANGED <<param, estado, running, grano_muelle, espera, current_buque,
                   pcg, fin_disparos, retirado>>
    /\ SinCamiones /\ SinBodega /\ SinLlegadas /\ SinRegistros

\* yield request_muelle returns (otorgado records the instant of the grant);
\* yield env.timeout(TIEMPO_LLEGADA_CAMIONES)
BuqueAtraca(s) ==
    /\ Listo(B(s)) /\ buque[s].pc = "request_muelle"
    /\ now' = T
    /\ buque' = [buque EXCEPT ![s].pc = "llegada_camiones", ![s].otorgado = T]
    /\ queue' = Timeout(Q, T, TIEMPO_LLEGADA_CAMIONES, B(s))
    /\ UNCHANGED <<param, estado, running, users, resq, grano_muelle, espera,
                   current_buque, pcg, fin_disparos, retirado>>
    /\ SinCamiones /\ SinBodega /\ SinLlegadas /\ SinRegistros

\* puerto.current_buque = self; iniciar_llegada_camiones.succeed() and a new
\* event; yield env.timeout(TIEMPO_ATRAQUE - TIEMPO_LLEGADA_CAMIONES)
BuqueAbreCamiones(s) ==
    /\ Listo(B(s)) /\ buque[s].pc = "llegada_camiones"
    /\ now' = T
    /\ current_buque' = s
    /\ buque' = [buque EXCEPT ![s].pc = "atraque"]
    /\ espera' = [espera EXCEPT !["iniciar_llegada_camiones"] = <<>>]
    /\ queue' = Timeout(Succeed(Q, T, espera["iniciar_llegada_camiones"]),
                        T, TIEMPO_ATRAQUE - TIEMPO_LLEGADA_CAMIONES, B(s))
    /\ UNCHANGED <<param, estado, running, users, resq, grano_muelle, pcg,
                   fin_disparos, retirado>>
    /\ SinCamiones /\ SinBodega /\ SinLlegadas /\ SinRegistros

\* self.tiempo_espera = self.primera_espia - self.arribo
TiempoEsperaMal(s, t) == buque[s].arribo - t
TiempoEspera(s, t) == t - buque[s].arribo

\* self.primera_espia = env.now; tiempo_espera;
\* yield env.timeout(choice(minutos_delay)): env.timeout raises ValueError for
\* a negative delay (the with block is left: the berth is released, and the
\* process fails)
BuquePrimeraEspia(s) ==
    /\ Listo(B(s)) /\ buque[s].pc = "atraque"
    /\ now' = T
    /\ \E d \in Delays :
          IF d < 0
          THEN /\ buque' = [buque EXCEPT ![s].pc = "error", ![s].primera_espia = T,
                                         ![s].tiempo_espera = TiempoEspera(s, T)]
               /\ users' = RelUsers(users, "frente_atraque", B(s))
               /\ queue' = Fail(RelHeap(Q, T, "frente_atraque"), T)
          ELSE /\ buque' = [buque EXCEPT ![s].pc = "delay", ![s].primera_espia = T,
                                         ![s].tiempo_espera = TiempoEspera(s, T)]
               /\ queue' = Timeout(Q, T, d, B(s))
               /\ UNCHANGED users
    /\ UNCHANGED <<param, estado, running, resq, grano_muelle, espera,
                   current_buque, pcg, fin_disparos, retirado>>
    /\ SinCamiones /\ SinBodega /\ SinLlegadas /\ SinRegistros

\* yield puerto.grano_muelle.put(self.tonelaje): the level rises at once and
\* the put event is scheduled
BuquePut(s) ==
    /\ Listo(B(s)) /\ buque[s].pc = "delay"
    /\ now' = T
    /\ buque' = [buque EXCEPT ![s].pc = "put"]
    /\ grano_muelle' = grano_muelle + buque[s].tonelaje
    /\ queue' = Schedule(Q, Ev(T, 2, "resume", B(s)))
    /\ fin_disparos' = 0
    /\ UNCHANGED <<param, estado, running, users, resq, espera, current_buque,
                   pcg, retirado>>
    /\ SinCamiones /\ SinBodega /\ SinLlegadas /\ SinRegistros

\* inicio_descarga_evento.succeed() and a new event; self.inicio_descarga =
\* env.now; yield puerto.fin_descarga_evento
BuqueInicioDescarga(s) ==
    /\ Listo(B(s)) /\ buque[s].pc = "put"
    /\ now' = T
    /\ buque' = [buque EXCEPT ![s].pc = "descarga", ![s].inicio_descarga = T]
    /\ espera' = [espera EXCEPT !["inicio_descarga_evento"] = <<>>,
                                !["fin_descarga_evento"] = Append(@, B(s))]
    /\ queue' = Succeed(Q, T, espera["inicio_descarga_evento"])
    /\ UNCHANGED <<param, estado, running, users, resq, grano_muelle,
                   current_buque, pcg, fin_disparos, retirado>>
    /\ SinCamiones /\ SinBodega /\ SinLlegadas /\ SinRegistros

\* puerto.current_buque = None; tiempo_descarga; buques_atendidos.append(self);
\* leaving the with block releases the berth
BuqueFinDescarga(s) ==
    /\ Listo(B(s)) /\ buque[s].pc = "descarga"
    /\ now' = T
    /\ current_buque' = 0
    /\ buque' = [buque EXCEPT ![s].pc = "fin",
                              ![s].tiempo_descarga = T - buque[s].inicio_descarga]
    /\ buques_atendidos' = Append(buques_atendidos, s)
    /\ users' = RelUsers(users, "frente_atraque", B(s))
    /\ queue' = RelHeap(Q, T, "frente_atraque")
    /\ UNCHANGED <<param, estado, running, resq, grano_muelle, espera, pcg,
                   fin_disparos, retirado, datos_rada>>
    /\ SinCamiones /\ SinBodega /\ SinLlegadas

\* --------------------------------------------------- the event loop
\* A Release event is processed: BaseResource._trigger_put grants the head of
\* the resource's queue when a slot is free.
TriggerPut(r) ==
    /\ estado = "run" /\ running = NADIE /\ queue # <<>> /\ T < Tiempo
    /\ Head(queue).k = "release" /\ Head(queue).p = <<r, 0>>
    /\ now' = T
    /\ IF resq[r] # <<>> /\ Concede(users, r)
       THEN /\ users' = [users EXCEPT ![r] = @ \cup {Head(resq[r])}]
            /\ resq' = [resq EXCEPT ![r] = Tail(@)]
            /\ queue' = Schedule(Q, Ev(T, 2, "resume", Head(resq[r])))
       ELSE /\ queue' = Q
            /\ UNCHANGED <<users, resq>>
    /\ UNCHANGED <<param, estado, running, grano_muelle, espera, current_buque,
                   buque, pcg, fin_disparos, retirado>>
    /\ SinCamiones /\ SinBodega /\ SinLlegadas /\ SinRegistros

\* The failed Process event is processed: env.run() raises.
Crash ==
    /\ estado = "run" /\ running = NADIE /\ queue # <<>> /\ T < Tiempo
    /\ Head(queue).k = "crash"
    /\ now' = T
    /\ estado' = "error"
    /\ queue' = Q
    /\ UNCHANGED <<param, running, users, resq, grano_muelle, espera,
                   current_buque, buque, pcg, fin_disparos, retirado>>
    /\ SinCamiones /\ SinBodega /\ SinLlegadas /\ SinRegistros

\* env.run(until=tiempo) returns: nothing is left before the horizon.
Fin ==
    /\ estado = "run" /\ running = NADIE
    /\ queue = <<>> \/ T >= Tiempo
    /\ now' = Tiempo
    /\ estado' = "fin"
    /\ UNCHANGED <<param, queue, running, users, resq, grano_muelle, espera,
                   current_buque, buque, pcg, fin_disparos, retirado>>
    /\ SinCamiones /\ SinBodega /\ SinLlegadas /\ SinRegistros

\* ------------------------------------------------------ generar_buques
\* len(puerto.frente_atraque.queue) < MAXIMO_RADA
HayLugarMal == Len(resq["frente_atraque"]) <= MAXIMO_RADA
HayLugarRada ==
    Len(resq["frente_atraque"]) + Cardinality(users["frente_atraque"]) < MAXIMO_RADA
HayLugar == Len(resq["frente_atraque"]) < MAXIMO_RADA

\* yield env.timeout(random.expovariate(tasa_llegada_buques)), first time
GenerarBuquesInicio ==
    /\ Listo(G("generar_buques")) /\ pcg["generar_buques"] = "creado"
    /\ now' = T
    /\ pcg' = [pcg EXCEPT !["generar_buques"] = "timeout"]
    /\ \E d \in DeltasBuques : queue' = Timeout(Q, T, d, G("generar_buques"))
    /\ UNCHANGED <<param, estado, running, users, resq, grano_muelle, espera,
                   current_buque, buque, fin_disparos, retirado>>
    /\ SinCamiones /\ SinBodega /\ SinLlegadas /\ SinRegistros

\* An arrival: a Buque is created and its process started, or the ship is
\* lost; then the next timeout.
GenerarBuquesArribo ==
    /\ Listo(G("generar_buques")) /\ pcg["generar_buques"] = "timeout"
    /\ HayLugar => n_buques < MaxBuques
    /\ now' = T
    /\ llegadas' = llegadas + 1
    /\ llegadas_llenas' =
          llegadas_llenas + (IF Len(resq["frente_atraque"]) >= MAXIMO_RADA THEN 1 ELSE 0)
    /\ \E d \in DeltasBuques, ton \in Tonelajes :
          IF HayLugar
          THEN /\ buque' = [buque EXCEPT ![n_buques + 1] =
                               Buque(i_buques, ton, Len(resq["frente_atraque"]))]
               /\ n_buques' = n_buques + 1
               /\ i_buques' = i_buques + 1
               /\ queue' = Timeout(Process(Q, T, B(n_buques + 1)), T, d,
                                   G("generar_buques"))
               /\ UNCHANGED buques_peridos
          ELSE /\ buques_peridos' = buques_peridos + 1
               /\ queue' = Timeout(Q, T, d, G("generar_buques"))
               /\ UNCHANGED <<buque, n_buques, i_buques>>
    /\ UNCHANGED <<param, estado, running, users, resq, grano_muelle, espera,
                   current_buque, pcg, fin_disparos, retirado>>
    /\ SinCamiones /\ SinBodega /\ SinRegistros

\* The model creates at most MaxBuques ships: the generator stops at the
\* arrival that would create one more.
GenerarBuquesAgotado ==
    /\ Listo(G("generar_buques")) /\ pcg["generar_buques"] = "timeout"
    /\ HayLugar /\ n_buques = MaxBuques
    /\ now' = T
    /\ queue' = Q
    /\ pcg' = [pcg EXCEPT !["generar_buques"] = "agotado"]
    /\ UNCHANGED <<param, estado, running, users, resq, grano_muelle, espera,
                   current_buque, buque, fin_disparos, retirado>>
    /\ SinCamiones /\ SinBodega /\ SinLlegadas /\ SinRegistros

\* --------------------------------------------- generar_camiones_puerto
\* random.random() < 1 - p
VaAlPuertoMal(u) == TRUE
VaAlPuerto(u) == u < 100 - param.prob

\* yield puerto.iniciar_llegada_camiones, first time
GenerarCamionesInicio ==
    /\ Listo(G("generar_camiones_puerto"))
    /\ pcg["generar_camiones_puerto"] = "creado"
    /\ now' = T
    /\ queue' = Q
    /\ pcg' = [pcg EXCEPT !["generar_camiones_puerto"] = "espera"]
    /\ espera' = [espera EXCEPT !["iniciar_llegada_camiones"] =
                                 Append(@, G("generar_camiones_puerto"))]
    /\ UNCHANGED <<param, estado, running, users, resq, grano_muelle,
                   current_buque, buque, fin_disparos, retirado>>
    /\ SinCamiones /\ SinBodega /\ SinLlegadas /\ SinRegistros

\* iniciar_llegada_camiones fired: the generator enters its inner loop
GenerarCamionesDespierta ==
    /\ Listo(G("generar_camiones_puerto"))
    /\ pcg["generar_camiones_puerto"] = "espera"
    /\ now' = T
    /\ queue' = Q
    /\ running' = G("generar_camiones_puerto")
    /\ pcg' = [pcg EXCEPT !["generar_camiones_puerto"] = "bucle"]
    /\ UNCHANGED <<param, estado, users, resq, grano_muelle, espera,
                   current_buque, buque, fin_disparos, retirado>>
    /\ SinCamiones /\ SinBodega /\ SinLlegadas /\ SinRegistros

\* The timeout ended: Camion(...) is created, its process started, and the
\* inner loop goes on.
GenerarCamionesCrea ==
    /\ Listo(G("generar_camiones_puerto"))
    /\ pcg["generar_camiones_puerto"] = "timeout"
    /\ now' = T
    /\ running' = G("generar_camiones_puerto")
    /\ pcg' = [pcg EXCEPT !["generar_camiones_puerto"] = "bucle"]
    /\ \E c \in Capacidades :
          camion' = [camion EXCEPT ![n_camiones + 1] =
                        [CamionNuevo EXCEPT !.pc = "creado", !.capacidad = c,
                                            !.origen = current_buque]]
    /\ n_camiones' = n_camiones + 1
    /\ queue' = Process(Q, T, C(n_camiones + 1))
    /\ UNCHANGED <<param, estado, users, resq, grano_muelle, espera,
                   current_buque, buque, fin_disparos, retirado, dedicado,
                   cbodega, n_cbodega>>
    /\ SinBodega /\ SinLlegadas /\ SinRegistros

\* while puerto.current_buque is not None: false, back to the outer yield
GenerarCamionesSale ==
    /\ estado = "run" /\ running = G("generar_camiones_puerto")
    /\ current_buque = 0
    /\ running' = NADIE
    /\ pcg' = [pcg EXCEPT !["generar_camiones_puerto"] = "espera"]
    /\ espera' = [espera EXCEPT !["iniciar_llegada_camiones"] =
                                 Append(@, G("generar_camiones_puerto"))]
    /\ UNCHANGED <<param, now, estado, queue, users, resq, grano_muelle,
                   current_buque, buque, fin_disparos, retirado>>
    /\ SinCamiones /\ SinBodega /\ SinLlegadas /\ SinRegistros

\* One pass of the inner loop whose draw selects the port: the generator
\* yields a timeout.  (The model stops the generator when MaxCamiones exist.)
GenerarCamionesTimeout ==
    /\ estado = "run" /\ running = G("generar_camiones_puerto")
    /\ current_buque # 0
    /\ \E u \in Sorteos : VaAlPuerto(u)
    /\ running' = NADIE
    /\ IF n_camiones < MaxCamiones
       THEN /\ pcg' = [pcg EXCEPT !["generar_camiones_puerto"] = "timeout"]
            /\ \E d \in DeltasCamiones :
                  queue' = Timeout(queue, now, d, G("generar_camiones_puerto"))
       ELSE /\ pcg' = [pcg EXCEPT !["generar_camiones_puerto"] = "agotado"]
            /\ UNCHANGED queue
    /\ UNCHANGED <<param, now, estado, users, resq, grano_muelle, espera,
                   current_buque, buque, fin_disparos, retirado>>
    /\ SinCamiones /\ SinBodega /\ SinLlegadas /\ SinRegistros

\* One pass of the inner loop whose draw does not select the port: nothing
\* is yielded and nothing changes; the loop condition is evaluated again.
GenerarCamionesGira ==
    /\ estado = "run" /\ running = G("generar_camiones_puerto")
    /\ current_buque # 0
    /\ \E u \in Sorteos : ~VaAlPuerto(u)
    /\ UNCHANGED vars

\* ------------------------------------------- the truck at its chute
\* The meal-break check: the timeout a truck yields at minute-of-day ct
\* (0: none).  The program's intervals are [780,840), [420,480), [900,960)
\* and [1380,1440) of a day of 1440; here [3,4), [1,3), [5,6) and [7,8) of DIA
\* (the second one two units wide, so that a check falls inside an interval as
\* well as on its left edge).
ColacionMal(ct) == IF ct \in {1, 2, 3, 5, 7} THEN 1 ELSE 0
Colacion(ct) ==
    IF 3 <= ct /\ ct < 4 THEN 4 - ct
    ELSE IF 1 <= ct /\ ct < 3 THEN 3 - ct
    ELSE IF 5 <= ct /\ ct < 6 THEN 6 - ct
    ELSE IF 7 <= ct /\ ct < 8 THEN 8 - ct
    ELSE 0

\* event.triggered of the event an attribute holds: the attribute is replaced
\* by a new env.event() in the statement after every succeed(), so the event
\* read through it has never been triggered.
Triggered(e) == FALSE

\* if grano_muelle.level == 0 or current_buque == None: yield inicio_descarga_evento
DebeEsperar == grano_muelle = 0 \/ current_buque = 0

\* carga = min(self.capacidad, puerto.grano_muelle.level)
CargaMal(cap) == cap
Carga(cap) == Min(cap, grano_muelle)

\* From the wait on inicio_descarga_evento (or past it) to the yield of
\* grano_muelle.get(carga), for truck p of capacity cap holding a chute, with
\* heap q and users us: the truck waits for the dump, or its get is granted
\* at once, or ContainerGet raises ValueError (amount <= 0), which leaves the
\* with block (the chute is released) and fails the process.
Cargar(p, cap, q, us, t, esperar) ==
    IF esperar
    THEN [pc |-> "espera_descarga", pedido |-> 0, queue |-> q, users |-> us,
          grano |-> grano_muelle,
          espera |-> [espera EXCEPT !["inicio_descarga_evento"] = Append(@, p)]]
    ELSE IF Carga(cap) <= 0
    THEN [pc |-> "error", pedido |-> 0,
          queue |-> Fail(RelHeap(q, t, "chutes"), t),
          users |-> RelUsers(us, "chutes", p),
          grano |-> grano_muelle, espera |-> espera]
    ELSE [pc |-> "get", pedido |-> Carga(cap),
          queue |-> Schedule(q, Ev(t, 2, "resume", p)), users |-> us,
          grano |-> grano_muelle - Carga(cap), espera |-> espera]

\* After the get: self.carga = carga; current_buque.num_camiones_* += 1
\* (AttributeError when current_buque is None); if the dock is empty and
\* fin_descarga_evento is not triggered, succeed() it and replace it; then
\* yield env.timeout(TIEMPO_CARGAR_EN_CHUTE).
DisparaFinMal == ~Triggered("fin_descarga_evento")
DisparaFin == grano_muelle = 0 /\ ~Triggered("fin_descarga_evento")

Cargado(p, q, us, t) ==
    IF current_buque = 0
    THEN [pc |-> "error", queue |-> Fail(RelHeap(q, t, "chutes"), t),
          users |-> RelUsers(us, "chutes", p), espera |-> espera,
          disparos |-> fin_disparos]
    ELSE IF DisparaFin
    THEN [pc |-> "cargando",
          queue |-> Timeout(Succeed(q, t, espera["fin_descarga_evento"]), t,
                            TIEMPO_CARGAR_EN_CHUTE, p),
          users |-> us,
          espera |-> [espera EXCEPT !["fin_descarga_evento"] = <<>>],
          disparos |-> fin_disparos + 1]
    ELSE [pc |-> "cargando", queue |-> Timeout(q, t, TIEMPO_CARGAR_EN_CHUTE, p),
          users |-> us, espera |-> espera, disparos |-> fin_disparos]

AcreditaMal(campo) == [buque EXCEPT ![1][campo] = @ + 1]

\* The credit of a load to the current ship (and what was withdrawn for it).
Acredita(campo) ==
    IF current_buque = 0 THEN buque
    ELSE [buque EXCEPT ![current_buque][campo] = @ + 1]

Retira(carga) ==
    IF current_buque = 0 THEN retirado
    ELSE [retirado EXCEPT ![current_buque] = @ + carga]

\* ------------------------------------------------ Camion.proceso_camion
\* req_puerta_entrada = puerto.puerta_entrada.request(); yield it
CamionLlega(c) ==
    /\ Listo(C(c)) /\ camion[c].pc = "creado"
    /\ now' = T
    /\ camion' = [camion EXCEPT ![c].pc = "req_puerta_entrada"]
    /\ users' = ReqUsers(users, "puerta_entrada", C(c))
    /\ resq' = ReqCola(users, resq, "puerta_entrada", C(c))
    /\ queue' = ReqHeap(users, Q, T, "puerta_entrada", C(c))
    /\ UNCHANGED <<param, estado, running, grano_muelle, espera, current_buque,
                   buque, pcg, fin_disparos, retirado, n_camiones, dedicado,
                   cbodega, n_cbodega>>
    /\ SinBodega /\ SinLlegadas /\ SinRegistros

\* yield env.timeout(TIEMPO_PUERTA_ENTRADA/2)
CamionEntra(c) ==
    /\ Listo(C(c)) /\ camion[c].pc = "req_puerta_entrada"
    /\ now' = T
    /\ camion' = [camion EXCEPT ![c].pc = "puerta_entrada"]
    /\ queue' = Timeout(Q, T, TIEMPO_PUERTA_ENTRADA \div 2, C(c))
    /\ UNCHANGED <<param, estado, running, users, resq, grano_muelle, espera,
                   current_buque, buque, pcg, fin_disparos, retirado,
                   n_camiones, dedicado, cbodega, n_cbodega>>
    /\ SinBodega /\ SinLlegadas /\ SinRegistros

\* with puerto.chutes.request() as req_chute: yield req_chute
CamionPideChute(c) ==
    /\ Listo(C(c)) /\ camion[c].pc = "puerta_entrada"
    /\ now' = T
    /\ camion' = [camion EXCEPT ![c].pc = "req_chute"]
    /\ users' = ReqUsers(users, "chutes", C(c))
    /\ resq' = ReqCola(users, resq, "chutes", C(c))
    /\ queue' = ReqHeap(users, Q, T, "chutes", C(c))
    /\ UNCHANGED <<param, estado, running, grano_muelle, espera, current_buque,
                   buque, pcg, fin_disparos, retirado, n_camiones, dedicado,
                   cbodega, n_cbodega>>
    /\ SinBodega /\ SinLlegadas /\ SinRegistros

\* yield env.timeout(TIEMPO_PUERTA_ENTRADA/2)
CamionEnChute(c) ==
    /\ Listo(C(c)) /\ camion[c].pc = "req_chute"
    /\ now' = T
    /\ camion' = [camion EXCEPT ![c].pc = "en_chute"]
    /\ queue' = Timeout(Q, T, TIEMPO_PUERTA_ENTRADA \div 2, C(c))
    /\ UNCHANGED <<param, estado, running, users, resq, grano_muelle, espera,
                   current_buque, buque, pcg, fin_disparos, retirado,
                   n_camiones, dedicado, cbodega, n_cbodega>>
    /\ SinBodega /\ SinLlegadas /\ SinRegistros

\* puerta_entrada.release(); the meal-break check; without a break, on to the
\* wait for the dump and the get
CamionLiberaEntrada(c) ==
    /\ Listo(C(c)) /\ camion[c].pc = "en_chute"
    /\ now' = T
    /\ LET us == RelUsers(users, "puerta_entrada", C(c))
           q  == RelHeap(Q, T, "puerta_entrada")
           r  == Cargar(C(c), camion[c].capacidad, q, us, T, DebeEsperar)
       IN  IF Colacion(T % DIA) > 0
           THEN /\ camion' = [camion EXCEPT ![c].pc = "colacion"]
                /\ users' = us
                /\ queue' = Timeout(q, T, Colacion(T % DIA), C(c))
                /\ UNCHANGED <<grano_muelle, espera>>
           ELSE /\ camion' = [camion EXCEPT ![c].pc = r.pc, ![c].pedido = r.pedido]
                /\ users' = r.users
                /\ queue' = r.queue
                /\ grano_muelle' = r.grano
                /\ espera' = r.espera
    /\ UNCHANGED <<param, estado, running, resq, current_buque, buque, pcg,
                   fin_disparos, retirado, n_camiones, dedicado, cbodega,
                   n_cbodega>>
    /\ SinBodega /\ SinLlegadas /\ SinRegistros

\* The meal break ended: the wait for the dump, or the get
CamionTrasColacion(c) ==
    /\ Listo(C(c)) /\ camion[c].pc = "colacion"
    /\ now' = T
    /\ LET r == Cargar(C(c), camion[c].capacidad, Q, users, T, DebeEsperar)
       IN  /\ camion' = [camion EXCEPT ![c].pc = r.pc, ![c].pedido = r.pedido]
           /\ users' = r.users
           /\ queue' = r.queue
           /\ grano_muelle' = r.grano
           /\ espera' = r.espera
    /\ UNCHANGED <<param, estado, running, resq, current_buque, buque, pcg,
                   fin_disparos, retirado, n_camiones, dedicado, cbodega,
                   n_cbodega>>
    /\ SinBodega /\ SinLlegadas /\ SinRegistros

\* inicio_descarga_evento fired: the get
CamionTrasEspera(c) ==
    /\ Listo(C(c)) /\ camion[c].pc = "espera_descarga"
    /\ now' = T
    /\ LET r == Cargar(C(c), camion[c].capacidad, Q, users, T, FALSE)
       IN  /\ camion' = [camion EXCEPT ![c].pc = r.pc, ![c].pedido = r.pedido]
           /\ users' = r.users
           /\ queue' = r.queue
           /\ grano_muelle' = r.grano
           /\ espera' = r.espera
    /\ UNCHANGED <<param, estado, running, resq, current_buque, buque, pcg,
                   fin_disparos, retirado, n_camiones, dedicado, cbodega,
                   n_cbodega>>
    /\ SinBodega /\ SinLlegadas /\ SinRegistros

\* The get event: the load is credited, fin_descarga_evento may fire, and the
\* truck loads for TIEMPO_CARGAR_EN_CHUTE
CamionCargado(c) ==
    /\ Listo(C(c)) /\ camion[c].pc = "get"
    /\ now' = T
    /\ LET r == Cargado(C(c), Q, users, T)
       IN  /\ camion' = [camion EXCEPT ![c].pc = r.pc, ![c].carga = camion[c].pedido]
           /\ users' = r.users
           /\ queue' = r.queue
           /\ espera' = r.espera
           /\ fin_disparos' = r.disparos
    /\ buque' = Acredita("num_camiones_normales")
    /\ retirado' = Retira(camion[c].pedido)
    /\ UNCHANGED <<param, estado, running, resq, grano_muelle, current_buque,
                   pcg, n_camiones, dedicado, cbodega, n_cbodega>>
    /\ SinBodega /\ SinLlegadas /\ SinRegistros

\* The with block ends (the chute is released);
\* req_puerta_salida = puerto.puerta_salida.request(); yield it
CamionDejaChute(c) ==
    /\ Listo(C(c)) /\ camion[c].pc = "cargando"
    /\ now' = T
    /\ LET us == RelUsers(users, "chutes", C(c))
           q  == RelHeap(Q, T, "chutes")
       IN  /\ users' = ReqUsers(us, "puerta_salida", C(c))
           /\ resq' = ReqCola(us, resq, "puerta_salida", C(c))
           /\ queue' = ReqHeap(us, q, T, "puerta_salida", C(c))
    /\ camion' = [camion EXCEPT ![c].pc = "req_puerta_salida"]
    /\ UNCHANGED <<param, estado, running, grano_muelle, espera, current_buque,
                   buque, pcg, fin_disparos, retirado, n_camiones, dedicado,
                   cbodega, n_cbodega>>
    /\ SinBodega /\ SinLlegadas /\ SinRegistros

\* puerto.puerta_salida.release(req_puerta_salida); the process ends
CamionSale(c) ==
    /\ Listo(C(c)) /\ camion[c].pc = "req_puerta_salida"
    /\ now' = T
    /\ users' = RelUsers(users, "puerta_salida", C(c))
    /\ queue' = RelHeap(Q, T, "puerta_salida")
    /\ camion' = [camion EXCEPT ![c].pc = "fin"]
    /\ UNCHANGED <<param, estado, running, resq, grano_muelle, espera,
                   current_buque, buque, pcg, fin_disparos, retirado,
                   n_camiones, dedicado, cbodega, n_cbodega>>
    /\ SinBodega /\ SinLlegadas /\ SinRegistros

\* --------------------------- CamionDedicado.proceso_camion_dedicado
SinPuerto == UNCHANGED <<grano_muelle, current_buque, buque, fin_disparos, retirado>>
SoloDedicado == UNCHANGED <<camion, n_camiones, cbodega, n_cbodega>>

\* len(puerta_entrada.users) == 0 and len(puerta_entrada.queue) == 0
PuertaLibreMal == TRUE
PuertaLibre == users["puerta_entrada"] = {} /\ resq["puerta_entrada"] = <<>>

\* while esperar: yield puerto.falta_camiones_event  (start of every cycle)
DedicadoEsperaFalta(d) ==
    /\ Listo(D(d)) /\ dedicado[d].pc \in {"creado", "salida_bodega"}
    /\ now' = T
    /\ queue' = Q
    /\ dedicado' = [dedicado EXCEPT ![d].pc = "espera_falta"]
    /\ espera' = [espera EXCEPT !["falta_camiones_event"] = Append(@, D(d))]
    /\ UNCHANGED <<param, estado, running, users, resq, pcg>>
    /\ SinPuerto /\ SoloDedicado /\ SinBodega /\ SinLlegadas /\ SinRegistros

\* yield env.timeout(2)
DedicadoDemora(d) ==
    /\ Listo(D(d)) /\ dedicado[d].pc = "espera_falta"
    /\ now' = T
    /\ queue' = Timeout(Q, T, DEMORA_DEDICADO, D(d))
    /\ dedicado' = [dedicado EXCEPT ![d].pc = "demora"]
    /\ UNCHANGED <<param, estado, running, users, resq, espera, pcg>>
    /\ SinPuerto /\ SoloDedicado /\ SinBodega /\ SinLlegadas /\ SinRegistros

\* The gate is free: req_puerta = puerta_entrada.request(); yield it.
\* Otherwise back to the wait on falta_camiones_event.
DedicadoRevisa(d) ==
    /\ Listo(D(d)) /\ dedicado[d].pc = "demora"
    /\ now' = T
    /\ IF PuertaLibre
       THEN /\ dedicado' = [dedicado EXCEPT ![d].pc = "req_puerta"]
            /\ users' = ReqUsers(users, "puerta_entrada", D(d))
            /\ resq' = ReqCola(users, resq, "puerta_entrada", D(d))
            /\ queue' = ReqHeap(users, Q, T, "puerta_entrada", D(d))
            /\ UNCHANGED espera
       ELSE /\ dedicado' = [dedicado EXCEPT ![d].pc = "espera_falta"]
            /\ espera' = [espera EXCEPT !["falta_camiones_event"] = Append(@, D(d))]
            /\ queue' = Q
            /\ UNCHANGED <<users, resq>>
    /\ UNCHANGED <<param, estado, running, pcg>>
    /\ SinPuerto /\ SoloDedicado /\ SinBodega /\ SinLlegadas /\ SinRegistros

\* yield env.timeout(TIEMPO_PUERTA_ENTRADA)
DedicadoEntra(d) ==
    /\ Listo(D(d)) /\ dedicado[d].pc = "req_puerta"
    /\ now' = T
    /\ queue' = Timeout(Q, T, TIEMPO_PUERTA_ENTRADA, D(d))
    /\ dedicado' = [dedicado EXCEPT ![d].pc = "puerta_entrada"]
    /\ UNCHANGED <<param, estado, running, users, resq, espera, pcg>>
    /\ SinPuerto /\ SoloDedicado /\ SinBodega /\ SinLlegadas /\ SinRegistros

\* with puerto.chutes.request() as req_chute: yield req_chute
DedicadoPideChute(d) ==
    /\ Listo(D(d)) /\ dedicado[d].pc = "puerta_entrada"
    /\ now' = T
    /\ dedicado' = [dedicado EXCEPT ![d].pc = "req_chute"]
    /\ users' = ReqUsers(users, "chutes", D(d))
    /\ resq' = ReqCola(users, resq, "chutes", D(d))
    /\ queue' = ReqHeap(users, Q, T, "chutes", D(d))
    /\ UNCHANGED <<param, estado, running, espera, pcg>>
    /\ SinPuerto /\ SoloDedicado /\ SinBodega /\ SinLlegadas /\ SinRegistros

\* puerta_entrada.release(req_puerta); the meal-break check; without a
\* break, on to the wait for the dump and the get
DedicadoLiberaEntrada(d) ==
    /\ Listo(D(d)) /\ dedicado[d].pc = "req_chute"
    /\ now' = T
    /\ LET us == RelUsers(users, "puerta_entrada", D(d))
           q  == RelHeap(Q, T, "puerta_entrada")
           r  == Cargar(D(d), dedicado[d].capacidad, q, us, T, DebeEsperar)
       IN  IF Colacion(T % DIA) > 0
           THEN /\ dedicado' = [dedicado EXCEPT ![d].pc = "colacion"]
                /\ users' = us
                /\ queue' = Timeout(q, T, Colacion(T % DIA), D(d))
                /\ UNCHANGED <<grano_muelle, espera>>
           ELSE /\ dedicado' = [dedicado EXCEPT ![d].pc = r.pc, ![d].pedido = r.pedido]
                /\ users' = r.users
                /\ queue' = r.queue
                /\ grano_muelle' = r.grano
                /\ espera' = r.espera
    /\ UNCHANGED <<param, estado, running, resq, current_buque, buque, pcg,
                   fin_disparos, retirado>>
    /\ SoloDedicado /\ SinBodega /\ SinLlegadas /\ SinRegistros

\* The meal break ended (pc colacion) or inicio_descarga_evento fired (pc
\* espera_descarga): the wait for the dump, or the get
DedicadoCarga(d) ==
    /\ Listo(D(d)) /\ dedicado[d].pc \in {"colacion", "espera_descarga"}
    /\ now' = T
    /\ LET r == Cargar(D(d), dedicado[d].capacidad, Q, users, T,
                       dedicado[d].pc = "colacion" /\ DebeEsperar)
       IN  /\ dedicado' = [dedicado EXCEPT ![d].pc = r.pc, ![d].pedido = r.pedido]
           /\ users' = r.users
           /\ queue' = r.queue
           /\ grano_muelle' = r.grano
           /\ espera' = r.espera
    /\ UNCHANGED <<param, estado, running, resq, current_buque, buque, pcg,
                   fin_disparos, retirado>>
    /\ SoloDedicado /\ SinBodega /\ SinLlegadas /\ SinRegistros

\* The get event: the load is credited, fin_descarga_evento may fire, and the
\* truck loads for TIEMPO_CARGAR_EN_CHUTE
DedicadoCargado(d) ==
    /\ Listo(D(d)) /\ dedicado[d].pc = "get"
    /\ now' = T
    /\ LET r == Cargado(D(d), Q, users, T)
       IN  /\ dedicado' = [dedicado EXCEPT ![d].pc = r.pc,
                                           ![d].carga = dedicado[d].pedido]
           /\ users' = r.users
           /\ queue' = r.queue
           /\ espera' = r.espera
           /\ fin_disparos' = r.disparos
    /\ buque' = Acredita("num_camiones_dedicados")
    /\ retirado' = Retira(dedicado[d].pedido)
    /\ UNCHANGED <<param, estado, running, resq, grano_muelle, current_buque, pcg>>
    /\ SoloDedicado /\ SinBodega /\ SinLlegadas /\ SinRegistros

\* The with block ends (the chute is released); yield env.timeout(TIEMPO_A_BODEGA)
DedicadoDejaChute(d) ==
    /\ Listo(D(d)) /\ dedicado[d].pc = "cargando"
    /\ now' = T
    /\ users' = RelUsers(users, "chutes", D(d))
    /\ queue' = Timeout(RelHeap(Q, T, "chutes"), T, TIEMPO_A_BODEGA, D(d))
    /\ dedicado' = [dedicado EXCEPT ![d].pc = "a_bodega"]
    /\ UNCHANGED <<param, estado, running, resq, espera, pcg>>
    /\ SinPuerto /\ SoloDedicado /\ SinBodega /\ SinLlegadas /\ SinRegistros

\* with bodega.descargar_en_bodega.request() as req_bodega: yield req_bodega
DedicadoLlegaBodega(d) ==
    /\ Listo(D(d)) /\ dedicado[d].pc = "a_bodega"
    /\ now' = T
    /\ dedicado' = [dedicado EXCEPT ![d].pc = "req_bodega"]
    /\ users' = ReqUsers(users, "descargar_en_bodega", D(d))
    /\ resq' = ReqCola(users, resq, "descargar_en_bodega", D(d))
    /\ queue' = ReqHeap(users, Q, T, "descargar_en_bodega", D(d))
    /\ UNCHANGED <<param, estado, running, espera, pcg>>
    /\ SinPuerto /\ SoloDedicado /\ SinBodega /\ SinLlegadas /\ SinRegistros

\* yield env.timeout(TIEMPO_DESCARGAR_EN_BODEGA)
DedicadoDescarga(d) ==
    /\ Listo(D(d)) /\ dedicado[d].pc = "req_bodega"
    /\ now' = T
    /\ queue' = Timeout(Q, T, TIEMPO_DESCARGAR_EN_BODEGA, D(d))
    /\ dedicado' = [dedicado EXCEPT ![d].pc = "descargando"]
    /\ UNCHANGED <<param, estado, running, users, resq, espera, pcg>>
    /\ SinPuerto /\ SoloDedicado /\ SinBodega /\ SinLlegadas /\ SinRegistros

\* yield bodega.grano_bodega.put(self.carga): ContainerPut raises ValueError
\* for an amount <= 0 (the with block is left and the process fails)
DedicadoPut(d) ==
    /\ Listo(D(d)) /\ dedicado[d].pc = "descargando"
    /\ now' = T
    /\ IF dedicado[d].carga <= 0
       THEN /\ dedicado' = [dedicado EXCEPT ![d].pc = "error"]
            /\ users' = RelUsers(users, "descargar_en_bodega", D(d))
            /\ queue' = Fail(RelHeap(Q, T, "descargar_en_bodega"), T)
            /\ UNCHANGED grano_bodega
       ELSE /\ dedicado' = [dedicado EXCEPT ![d].pc = "put"]
            /\ grano_bodega' = grano_bodega + dedicado[d].carga
            /\ queue' = Schedule(Q, Ev(T, 2, "resume", D(d)))
            /\ UNCHANGED users
    /\ UNCHANGED <<param, estado, running, resq, espera, pcg, eventos_bodega>>
    /\ SinPuerto /\ SoloDedicado /\ SinLlegadas /\ SinRegistros

\* self.carga_depositada = self.carga, before self.carga = 0
DepositadaMal(d) == 0
Depositada(d) == dedicado[d].carga

\* bodega_recargada.succeed() and a new event (if not triggered); the load is
\* logged and self.carga = 0; the with block ends; yield
\* env.timeout(TIEMPO_SALIDA_DE_BODEGA)
DedicadoDepositado(d) ==
    /\ Listo(D(d)) /\ dedicado[d].pc = "put"
    /\ now' = T
    /\ IF ~Triggered("bodega_recargada")
       THEN /\ espera' = [espera EXCEPT !["bodega_recargada"] = <<>>]
            /\ queue' = Timeout(RelHeap(Succeed(Q, T, espera["bodega_recargada"]),
                                        T, "descargar_en_bodega"),
                                T, TIEMPO_SALIDA_DE_BODEGA, D(d))
       ELSE /\ UNCHANGED espera
            /\ queue' = Timeout(RelHeap(Q, T, "descargar_en_bodega"),
                                T, TIEMPO_SALIDA_DE_BODEGA, D(d))
    /\ eventos_bodega' = Append(eventos_bodega,
          [id_camion |-> D(d), actividad |-> "descargar en bodega",
           depositadas |-> Depositada(d), retiradas |-> 0,
           restante |-> grano_bodega])
    /\ dedicado' = [dedicado EXCEPT ![d].pc = "salida_bodega", ![d].carga = 0]
    /\ users' = RelUsers(users, "descargar_en_bodega", D(d))
    /\ UNCHANGED <<param, estado, running, resq, pcg, grano_bodega>>
    /\ SinPuerto /\ SoloDedicado /\ SinLlegadas /\ SinRegistros

\* ------------------------------- CamionBodega.proceso_camion_bodega
SoloCBodega == UNCHANGED <<camion, n_camiones, dedicado, n_cbodega>>

\* with bodega.cargar_en_bodega.request() as req_cargar_bodega: yield it
CamionBodegaLlega(b) ==
    /\ Listo(CB(b)) /\ cbodega[b].pc = "creado"
    /\ now' = T
    /\ cbodega' = [cbodega EXCEPT ![b].pc = "req_cargar"]
    /\ users' = ReqUsers(users, "cargar_en_bodega", CB(b))
    /\ resq' = ReqCola(users, resq, "cargar_en_bodega", CB(b))
    /\ queue' = ReqHeap(users, Q, T, "cargar_en_bodega", CB(b))
    /\ UNCHANGED <<param, estado, running, espera, pcg>>
    /\ SinPuerto /\ SoloCBodega /\ SinBodega /\ SinLlegadas /\ SinRegistros

\* if grano_bodega.level == 0: yield bodega_recargada;
\* else yield env.timeout(TIEMPO_CARGAR_EN_BODEGA)
CamionBodegaInicioCarga(b) ==
    /\ Listo(CB(b)) /\ cbodega[b].pc = "req_cargar"
    /\ now' = T
    /\ IF grano_bodega = 0
       THEN /\ cbodega' = [cbodega EXCEPT ![b].pc = "espera_recarga"]
            /\ espera' = [espera EXCEPT !["bodega_recargada"] = Append(@, CB(b))]
            /\ queue' = Q
       ELSE /\ cbodega' = [cbodega EXCEPT ![b].pc = "cargando"]
            /\ queue' = Timeout(Q, T, TIEMPO_CARGAR_EN_BODEGA, CB(b))
            /\ UNCHANGED espera
    /\ UNCHANGED <<param, estado, running, users, resq, pcg>>
    /\ SinPuerto /\ SoloCBodega /\ SinBodega /\ SinLlegadas /\ SinRegistros

\* bodega_recargada fired: yield env.timeout(TIEMPO_CARGAR_EN_BODEGA)
CamionBodegaTrasRecarga(b) ==
    /\ Listo(CB(b)) /\ cbodega[b].pc = "espera_recarga"
    /\ now' = T
    /\ cbodega' = [cbodega EXCEPT ![b].pc = "cargando"]
    /\ queue' = Timeout(Q, T, TIEMPO_CARGAR_EN_BODEGA, CB(b))
    /\ UNCHANGED <<param, estado, running, users, resq, espera, pcg>>
    /\ SinPuerto /\ SoloCBodega /\ SinBodega /\ SinLlegadas /\ SinRegistros

\* carga = min(capacidad, grano_bodega.level); yield grano_bodega.get(carga):
\* ContainerGet raises ValueError for an amount <= 0
CamionBodegaGet(b) ==
    /\ Listo(CB(b)) /\ cbodega[b].pc = "cargando"
    /\ now' = T
    /\ LET carga == Min(cbodega[b].capacidad, grano_bodega)
       IN  IF carga <= 0
           THEN /\ cbodega' = [cbodega EXCEPT ![b].pc = "error"]
                /\ users' = RelUsers(users, "cargar_en_bodega", CB(b))
                /\ queue' = Fail(RelHeap(Q, T, "cargar_en_bodega"), T)
                /\ UNCHANGED grano_bodega
           ELSE /\ cbodega' = [cbodega EXCEPT ![b].pc = "get", ![b].pedido = carga]
                /\ grano_bodega' = grano_bodega - carga
                /\ queue' = Schedule(Q, Ev(T, 2, "resume", CB(b)))
                /\ UNCHANGED users
    /\ UNCHANGED <<param, estado, running, resq, espera, pcg, eventos_bodega>>
    /\ SinPuerto /\ SoloCBodega /\ SinLlegadas /\ SinRegistros

\* self.carga = carga; the load is logged; yield env.timeout(TIEMPO_SALIDA_DE_BODEGA)
CamionBodegaRegistra(b) ==
    /\ Listo(CB(b)) /\ cbodega[b].pc = "get"
    /\ now' = T
    /\ cbodega' = [cbodega EXCEPT ![b].pc = "salida", ![b].carga = cbodega[b].pedido]
    /\ eventos_bodega' = Append(eventos_bodega,
          [id_camion |-> CB(b), actividad |-> "cargar en bodega",
           depositadas |-> 0, retiradas |-> cbodega[b].pedido,
           restante |-> grano_bodega])
    /\ queue' = Timeout(Q, T, TIEMPO_SALIDA_DE_BODEGA, CB(b))
    /\ UNCHANGED <<param, estado, running, users, resq, espera, pcg, grano_bodega>>
    /\ SinPuerto /\ SoloCBodega /\ SinLlegadas /\ SinRegistros

\* The with block ends (cargar_en_bodega is released); the process ends
CamionBodegaSale(b) ==
    /\ Listo(CB(b)) /\ cbodega[b].pc = "salida"
    /\ now' = T
    /\ cbodega' = [cbodega EXCEPT ![b].pc = "fin"]
    /\ users' = RelUsers(users, "cargar_en_bodega", CB(b))
    /\ queue' = RelHeap(Q, T, "cargar_en_bodega")
    /\ UNCHANGED <<param, estado, running, resq, espera, pcg>>
    /\ SinPuerto /\ SoloCBodega /\ SinBodega /\ SinLlegadas /\ SinRegistros

\* --------------------------------------------- generar_camiones_bodega
\* random.random() < p
VaABodega(u) == u < param.prob

\* yield bodega.bodega_recargada, first time
GenerarBodegaInicio ==
    /\ Listo(G("generar_camiones_bodega"))
    /\ pcg["generar_camiones_bodega"] = "creado"
    /\ now' = T
    /\ queue' = Q
    /\ pcg' = [pcg EXCEPT !["generar_camiones_bodega"] = "espera"]
    /\ espera' = [espera EXCEPT !["bodega_recargada"] =
                                 Append(@, G("generar_camiones_bodega"))]
    /\ UNCHANGED <<param, estado, running, users, resq>>
    /\ SinPuerto /\ SinCamiones /\ SinBodega /\ SinLlegadas /\ SinRegistros

\* bodega_recargada fired: the generator enters its inner loop
GenerarBodegaDespierta ==
    /\ Listo(G("generar_camiones_bodega"))
    /\ pcg["generar_camiones_bodega"] = "espera"
    /\ now' = T
    /\ queue' = Q
    /\ running' = G("generar_camiones_bodega")
    /\ pcg' = [pcg EXCEPT !["generar_camiones_bodega"] = "bucle"]
    /\ UNCHANGED <<param, estado, users, resq, espera>>
    /\ SinPuerto /\ SinCamiones /\ SinBodega /\ SinLlegadas /\ SinRegistros

\* The timeout ended: CamionBodega(...) is created, its process started, and
\* the inner loop goes on.
GenerarBodegaCrea ==
    /\ Listo(G("generar_camiones_bodega"))
    /\ pcg["generar_camiones_bodega"] = "timeout"
    /\ now' = T
    /\ running' = G("generar_camiones_bodega")
    /\ pcg' = [pcg EXCEPT !["generar_camiones_bodega"] = "bucle"]
    /\ \E c \in Capacidades :
          cbodega' = [cbodega EXCEPT ![n_cbodega + 1] =
                         [CamionNuevo EXCEPT !.pc = "creado", !.capacidad = c]]
    /\ n_cbodega' = n_cbodega + 1
    /\ queue' = Process(Q, T, CB(n_cbodega + 1))
    /\ UNCHANGED <<param, estado, users, resq, espera, camion, n_camiones, dedicado>>
    /\ SinPuerto /\ SinBodega /\ SinLlegadas /\ SinRegistros

\* while bodega.grano_bodega.level > 0: false, back to the outer yield
GenerarBodegaSale ==
    /\ estado = "run" /\ running = G("generar_camiones_bodega")
    /\ ~(grano_bodega > 0)
    /\ running' = NADIE
    /\ pcg' = [pcg EXCEPT !["generar_camiones_bodega"] = "espera"]
    /\ espera' = [espera EXCEPT !["bodega_recargada"] =
                                 Append(@, G("generar_camiones_bodega"))]
    /\ UNCHANGED <<param, now, estado, queue, users, resq>>
    /\ SinPuerto /\ SinCamiones /\ SinBodega /\ SinLlegadas /\ SinRegistros

\* One pass of the inner loop whose draw selects the warehouse: the generator
\* yields a timeout.  (The model stops it when MaxCamionesBodega exist.)
GenerarBodegaTimeout ==
    /\ estado = "run" /\ running = G("generar_camiones_bodega")
    /\ grano_bodega > 0
    /\ \E u \in Sorteos : VaABodega(u)
    /\ running' = NADIE
    /\ IF n_cbodega < MaxCamionesBodega
       THEN /\ pcg' = [pcg EXCEPT !["generar_camiones_bodega"] = "timeout"]
            /\ \E d \in DeltasCamiones :
                  queue' = Timeout(queue, now, d, G("generar_camiones_bodega"))
       ELSE /\ pcg' = [pcg EXCEPT !["generar_camiones_bodega"] = "agotado"]
            /\ UNCHANGED queue
    /\ UNCHANGED <<param, now, estado, users, resq, espera>>
    /\ SinPuerto /\ SinCamiones /\ SinBodega /\ SinLlegadas /\ SinRegistros

\* One pass of the inner loop whose draw does not select the warehouse:
\* nothing is yielded and nothing changes.
GenerarBodegaGira ==
    /\ estado = "run" /\ running = G("generar_camiones_bodega")
    /\ grano_bodega > 0
    /\ \E u \in Sorteos : ~VaABodega(u)
    /\ UNCHANGED vars

\* ------------------------------------------------------- the monitors
\* monitor_cola_buques: yield env.timeout(60*24); from the second resume on,
\* a row of datos_rada first
MonitorColaBuques ==
    /\ Listo(G("monitor_cola_buques"))
    /\ now' = T
    /\ queue' = Timeout(Q, T, DIA, G("monitor_cola_buques"))
    /\ pcg' = [pcg EXCEPT !["monitor_cola_buques"] = "timeout"]
    /\ datos_rada' =
          IF pcg["monitor_cola_buques"] = "creado" THEN datos_rada
          ELSE Append(datos_rada,
                 [Dia |-> T \div DIA,
                  Largo |-> Len(resq["frente_atraque"])
                            + Cardinality(users["frente_atraque"]),
                  atendidos |-> Len(buques_atendidos),
                  perdidos |-> buques_peridos])
    /\ UNCHANGED <<param, estado, running, users, resq, espera, buques_atendidos>>
    /\ SinPuerto /\ SinCamiones /\ SinBodega /\ SinLlegadas

\* Puerto.monitor_cola_camiones: with the entry gate free,
\* falta_camiones_event.succeed() and a new event; yield env.timeout(0.5)
MonitorColaCamiones ==
    /\ Listo(G("monitor_cola_camiones"))
    /\ now' = T
    /\ pcg' = [pcg EXCEPT !["monitor_cola_camiones"] = "timeout"]
    /\ IF PuertaLibre
       THEN /\ espera' = [espera EXCEPT !["falta_camiones_event"] = <<>>]
            /\ queue' = Timeout(Succeed(Q, T, espera["falta_camiones_event"]),
                                T, PERIODO_MONITOR_CAMIONES,
                                G("monitor_cola_camiones"))
       ELSE /\ UNCHANGED espera
            /\ queue' = Timeout(Q, T, PERIODO_MONITOR_CAMIONES,
                                G("monitor_cola_camiones"))
    /\ UNCHANGED <<param, estado, running, users, resq>>
    /\ SinPuerto /\ SinCamiones /\ SinBodega /\ SinLlegadas /\ SinRegistros

\* ------------------------------------------------------------ the run
Next ==
    \/ \E s \in 1..MaxBuques :
          \/ BuqueArribo(s) \/ BuqueAtraca(s) \/ BuqueAbreCamiones(s)
          \/ BuquePrimeraEspia(s) \/ BuquePut(s) \/ BuqueInicioDescarga(s)
          \/ BuqueFinDescarga(s)
    \/ \E c \in 1..MaxCamiones :
          \/ CamionLlega(c) \/ CamionEntra(c) \/ CamionPideChute(c)
          \/ CamionEnChute(c) \/ CamionLiberaEntrada(c) \/ CamionTrasColacion(c)
          \/ CamionTrasEspera(c) \/ CamionCargado(c) \/ CamionDejaChute(c)
          \/ CamionSale(c)
    \/ \E d \in 1..MaxDedicados :
          \/ DedicadoEsperaFalta(d) \/ DedicadoDemora(d) \/ DedicadoRevisa(d)
          \/ DedicadoEntra(d) \/ DedicadoPideChute(d) \/ DedicadoLiberaEntrada(d)
          \/ DedicadoCarga(d) \/ DedicadoCargado(d) \/ DedicadoDejaChute(d)
          \/ DedicadoLlegaBodega(d) \/ DedicadoDescarga(d) \/ DedicadoPut(d)
          \/ DedicadoDepositado(d)
    \/ \E b \in 1..MaxCamionesBodega :
          \/ CamionBodegaLlega(b) \/ CamionBodegaInicioCarga(b)
          \/ CamionBodegaTrasRecarga(b) \/ CamionBodegaGet(b)
          \/ CamionBodegaRegistra(b) \/ CamionBodegaSale(b)
    \/ GenerarBuquesInicio \/ GenerarBuquesArribo \/ GenerarBuquesAgotado
    \/ GenerarCamionesInicio \/ GenerarCamionesDespierta \/ GenerarCamionesCrea
    \/ GenerarCamionesSale \/ GenerarCamionesTimeout \/ GenerarCamionesGira
    \/ GenerarBodegaInicio \/ GenerarBodegaDespierta \/ GenerarBodegaCrea
    \/ GenerarBodegaSale \/ GenerarBodegaTimeout \/ GenerarBodegaGira
    \/ MonitorColaBuques \/ MonitorColaCamiones
    \/ \E r \in Recursos : TriggerPut(r)
    \/ Crash
    \/ Fin

Spec == Init /\ [][Next]_vars

SpecDedicados == InitDedicados /\ [][Next]_vars

\* ------------------------------------------------------- properties
EnDescarga(s) == buque[s].pc \in {"put", "descarga"}

\* C1: a ship that completed its unload cycle has had exactly its tonnage
\* withdrawn by the trucks credited to it; no truck is credited to a ship that
\* has not dumped yet, and the credits of a ship never exceed its tonnage.
C1_Balance ==
    \A s \in 1..MaxBuques :
        /\ buque[s].pc = "fin" => retirado[s] = buque[s].tonelaje
        /\ buque[s].pc \notin {"put", "descarga", "fin"} => retirado[s] = 0
        /\ retirado[s] <= buque[s].tonelaje

\* A ship completed its cycle with the loads of two trucks, and a later ship
\* has dumped.
C1_Witness ==
    \E s, n \in 1..MaxBuques :
        /\ buque[s].pc = "fin"
        /\ buque[s].num_camiones_normales + buque[s].num_camiones_dedicados = 2
        /\ s # n /\ EnDescarga(n)

\* C2: fin_descarga_evento is fired at most once between a ship's dump and
\* the next ship's dump, also when several trucks resume from their
\* withdrawal at the same instant and each finds the dock empty.
C2_UnaVez == fin_disparos <= 1

\* C3: the run terminates for every prob and every camiones_dedicados: while
\* env.run() has not returned, a step that changes the state is possible, so
\* no process stays in a loop at one instant without yielding.
C3_Termina == estado = "run" => ENABLED <<Next>>_vars

\* C4: with camiones_dedicados = 0 the run does not depend on prob: a pass of
\* the loop of generar_camiones_puerto takes the same branch (the timeout and
\* the truck) whatever the draw, as it does with prob = 0.
C4_SinEfecto ==
    (param.camiones_dedicados = 0 /\ running = G("generar_camiones_puerto")
       /\ current_buque # 0)
    => \A u \in Sorteos : VaAlPuerto(u)

\* The first arrival of generar_buques has been processed.
PrimeraLlegada == llegadas + (IF pcg["generar_buques"] = "agotado" THEN 1 ELSE 0) >= 1

C6_Perdidos ==
    /\ buques_peridos = llegadas_llenas
    /\ llegadas = i_buques + buques_peridos
    /\ n_buques = param.buques_inicio_cola + i_buques

\* Arrivals of both kinds have happened.
C6_Witness == buques_peridos >= 1 /\ i_buques >= 1 /\ llegadas >= 3

\* C7: the queue of the berth never holds more than MAXIMO_RADA ships, the
\* pre-seeded ones included.
C7_Cota == Len(resq["frente_atraque"]) <= MAXIMO_RADA

\* C8: the levels of grano_muelle and grano_bodega are never negative.
C8_Niveles == grano_muelle >= 0 /\ grano_bodega >= 0

\* A truck took less than its capacity because the dock held less, and a
\* warehouse truck did the same at the warehouse.
C8_Witness ==
    /\ \E c \in 1..MaxCamiones :
          camion[c].carga > 0 /\ camion[c].carga < camion[c].capacidad
    /\ \E b \in 1..MaxCamionesBodega :
          cbodega[b].carga > 0 /\ cbodega[b].carga < cbodega[b].capacidad
    /\ grano_bodega = 0

Depositos ==
    Cardinality({i \in 1..Len(eventos_bodega) :
                    eventos_bodega[i].actividad = "descargar en bodega"})

\* C11: with grano > 0 the event bodega_recargada fired in Bodega.__init__ is
\* seen by generar_camiones_bodega: the generator is not left waiting on
\* bodega_recargada while no dedicated truck has deposited.
C11_Latch ==
    (param.camiones_dedicados > 0 /\ param.grano > 0 /\ Depositos = 0)
    => pcg["generar_camiones_bodega"] # "espera"

\* C12: a truck woken by inicio_descarga_evento that finds the dock empty
\* loads 0 tonnes and goes on: no truck process raises at its load or at its
\* deposit, and the run is not aborted.
C12_CargaCero ==
    /\ \A c \in 1..MaxCamiones : camion[c].pc # "error"
    /\ \A d \in 1..MaxDedicados : dedicado[d].pc # "error"

\* C13: a negative delay drawn for a ship is taken as 0: the ship dumps at
\* its primera_espia and no ship process raises.
C13_Clamp == \A s \in 1..MaxBuques : buque[s].pc # "error"

\* C14: simulacion() rejects an invalid configuration before any process is
\* scheduled: with prob outside [0,1], MAXIMO_RADA < 1 or a negative
\* parameter, the heap is empty and the clock has not moved.
C14_Rechaza ==
    LET valida == /\ param.prob \in 0..100
                  /\ MAXIMO_RADA >= 1
                  /\ param.camiones_dedicados >= 0 /\ param.grano >= 0
                  /\ param.cap >= 0 /\ param.buques_inicio_cola >= 0
    IN  ~valida => queue = <<>> /\ now = 0 /\ llegadas = 0 /\ n_camiones = 0

\* Sum of field f over the rows of a sequence.
RECURSIVE Suma(_, _)
Suma(seq, f) == IF seq = <<>> THEN 0 ELSE Head(seq)[f] + Suma(Tail(seq), f)

\* C16: when a run with a warehouse returns, the tonnes deposited minus the
\* tonnes withdrawn in eventos_bodega, plus grano, are the final level of
\* grano_bodega.
C16_Balance ==
    (estado = "fin" /\ param.camiones_dedicados > 0)
    => Suma(eventos_bodega, "depositadas") - Suma(eventos_bodega, "retiradas")
          + param.grano = grano_bodega

\* A run with initial grain returned after a deposit and a withdrawal.
C16_Witness ==
    /\ estado = "fin" /\ param.camiones_dedicados > 0 /\ param.grano > 0
    /\ Suma(eventos_bodega, "depositadas") > 0
    /\ Suma(eventos_bodega, "retiradas") > 0

\* Ships are numbered in the order their processes were spawned, which is the
\* order of their requests: the pre-seeded ones first, then the generated ones.
Creciente(seq) == \A i, j \in 1..Len(seq) : i < j => seq[i] < seq[j]
ColaMuelle == [i \in 1..Len(resq["frente_atraque"]) |-> resq["frente_atraque"][i][2]]

\* C17: the berth is granted in the order of the requests: the ships waiting
\* for it are queued in request order behind the ship that holds it, every
\* ship already served requested it before them, and buques_atendidos lists
\* the ships in request order, the pre-seeded ones before the generated ones.
C17_Fifo ==
    /\ Creciente(buques_atendidos)
    /\ Creciente(ColaMuelle)
    /\ \A i \in 1..Len(ColaMuelle) :
          /\ \A u \in users["frente_atraque"] : u[2] < ColaMuelle[i]
          /\ \A j \in 1..Len(buques_atendidos) : buques_atendidos[j] < ColaMuelle[i]
    /\ \A u \in users["frente_atraque"] :
          \A j \in 1..Len(buques_atendidos) : buques_atendidos[j] < u[2]

\* A pre-seeded ship was served, the next one holds the berth and a generated
\* ship is queued behind it.
C17_Witness ==
    /\ Len(buques_atendidos) >= 1
    /\ \E u \in users["frente_atraque"] : u[2] <= param.buques_inicio_cola
    /\ Len(ColaMuelle) >= 1
    /\ ColaMuelle[1] > param.buques_inicio_cola

\* datos_buques is built from puerto.buques_atendidos[buques_inicio_cola:]
DatosBuquesMal == buques_atendidos
DatosBuques == SubSeq(buques_atendidos, param.buques_inicio_cola + 1, Len(buques_atendidos))

\* C18: the ships of the output are exactly the generated ships that finished
\* their unloading: no pre-seeded ship is among them and no served generated
\* ship is missing, each listed once.
C18_Salida ==
    /\ {DatosBuques[i] : i \in 1..Len(DatosBuques)}
          = {s \in 1..MaxBuques :
                buque[s].pc = "fin" /\ s > param.buques_inicio_cola}
    /\ \A i, j \in 1..Len(DatosBuques) :
          DatosBuques[i] = DatosBuques[j] => i = j

\* A run with a pre-seeded ship returned with a generated ship in its output.
C18_Witness ==
    /\ estado = "fin"
    /\ param.buques_inicio_cola >= 1
    /\ DatosBuques # <<>>

\* C19: every served ship has tiempo_espera = primera_espia - arribo >= 0 and
\* a tiempo_descarga >= 0, measured from inicio_descarga to the instant the
\* ship is resumed by fin_descarga_evento.
C19_Tiempos ==
    \A i \in 1..Len(buques_atendidos) :
        LET b == buque[buques_atendidos[i]]
        IN  /\ b.tiempo_espera = b.primera_espia - b.arribo
            /\ b.tiempo_espera >= 0
            /\ b.inicio_descarga >= b.primera_espia
            /\ b.tiempo_descarga >= 0
            /\ b.inicio_descarga + b.tiempo_descarga <= now

\* A served ship that waited for the berth behind another one and whose
\* unloading took time.
C19_Witness ==
    \E i \in 1..Len(buques_atendidos) :
        /\ buque[buques_atendidos[i]].tiempo_espera > TIEMPO_ATRAQUE
        /\ buque[buques_atendidos[i]].tiempo_descarga > 0

\* The place of process p in heap q (0: p has no entry).
Lugar(q, p) ==
    IF \E j \in 1..Len(q) : q[j].p = p
    THEN CHOOSE j \in 1..Len(q) : q[j].p = p
    ELSE 0

\* The waiters w of an event before a step are still waiting after it.
Siguen(w, w2) == Len(w2) >= Len(w) /\ SubSeq(w2, 1, Len(w)) = w

\* C20 for event e in one step: a process waiting on e has no entry in the
\* heap; the processes that waited on e either all keep waiting, in their
\* order, or the event fired: each of them is resumed at the instant of the
\* step, in the order they began to wait, and none of them waits on the new
\* event the attribute holds after the step.
Disparo(e) ==
    LET w  == espera[e]
        w2 == espera'[e]
    IN  /\ \A i \in 1..Len(w2) : Lugar(queue', w2[i]) = 0
        /\ \/ Siguen(w, w2)
           \/ /\ \A i \in 1..Len(w) :
                    /\ Lugar(queue', w[i]) # 0
                    /\ queue'[Lugar(queue', w[i])] = Ev(now', 2, "resume", w[i])
                    /\ \A k \in 1..Len(w2) : w2[k] # w[i]
              /\ \A i, k \in 1..Len(w) :
                    i < k => Lugar(queue', w[i]) < Lugar(queue', w[k])

\* C20: an event fired at an instant wakes every process that was waiting on
\* it, at that instant and in the order they began to wait, and the attribute
\* holds a new event in the same step; a process that begins to wait on it
\* afterwards is not woken by that firing.
C20_Eventos == [][\A e \in DOMAIN espera : Disparo(e)]_vars

\* The dump of the ship at the berth has just woken two trucks that waited
\* for it: both are in the heap at this instant, in the order they waited,
\* and nobody waits on the new event.
C20_Witness ==
    /\ current_buque # 0
    /\ buque[current_buque].inicio_descarga = now
    /\ espera["inicio_descarga_evento"] = <<>>
    /\ Cardinality({j \in 1..Len(queue) :
                      /\ queue[j].t = now
                      /\ \/ \E c \in 1..MaxCamiones :
                               queue[j].p = C(c) /\ camion[c].pc = "espera_descarga"
                         \/ \E d \in 1..MaxDedicados :
                               queue[j].p = D(d) /\ dedicado[d].pc = "espera_descarga"})
          >= 2

\* C21: the clock never goes back from one step to the next; every step of
\* a process happens at an instant strictly before the horizon; and when
\* env.run(until) returns, whatever was scheduled at the horizon or later is
\* still in the heap, unprocessed: no row of datos_rada is dated at the
\* horizon.
C21_Horizonte ==
    [][/\ now' >= now
       /\ estado' # "fin" => now' < Tiempo
       /\ estado' = "fin" =>
             /\ now' = Tiempo
             /\ \A j \in 1..Len(queue') : queue'[j].t >= Tiempo
             /\ \A i \in 1..Len(datos_rada') : datos_rada'[i].Dia * DIA < Tiempo]_vars

\* The run returned with the snapshot of monitor_cola_buques due exactly at
\* the horizon still in the heap.
C21_Witness ==
    /\ estado = "fin"
    /\ \E j \in 1..Len(queue) :
          queue[j] = Ev(Tiempo, 2, "resume", G("monitor_cola_buques"))
    /\ datos_rada # <<>>

\* C22: a run of D days returns D rows of datos_rada, one per day, with
\* distinct values of Dia.
C22_Filas ==
    estado = "fin" =>
        /\ Len(datos_rada) = Tiempo \div DIA
        /\ \A i, j \in 1..Len(datos_rada) :
              datos_rada[i].Dia = datos_rada[j].Dia => i = j

\* C23: an ordinary truck is created only at an instant when a ship is
\* current_buque and grano_muelle holds grain.
C23_Creacion ==
    [][n_camiones' > n_camiones => (current_buque # 0 /\ grano_muelle > 0)]_vars

\* C23, the part about the ship alone: an ordinary truck is created only at
\* an instant when a ship is current_buque.
C23_SinBuque == [][n_camiones' > n_camiones => current_buque # 0]_vars

\* Nothing is left to process at the current instant.
InstanteCompleto == estado = "fin" \/ (estado = "run" /\ (queue = <<>> \/ T > now))

\* C24: the berth is handed to the head of its queue at the instant of the
\* release: once an instant is complete, a ship waiting for the berth implies
\* that the berth is held; and a ship that finished at this instant while
\* another waited has already been replaced by the head of the queue or its
\* Release event is still to be processed at this instant.
C24_Relevo ==
    /\ (InstanteCompleto /\ resq["frente_atraque"] # <<>>)
          => Cardinality(users["frente_atraque"]) = 1
    /\ (estado = "run" /\ resq["frente_atraque"] # <<>>
           /\ users["frente_atraque"] = {})
          => \E j \in 1..Len(queue) :
                queue[j] = Ev(now, 2, "release", <<"frente_atraque", 0>>)

\* A ship finished its unloading at this instant and the ship that waited
\* behind it holds the berth already.
C24_Witness ==
    /\ estado = "run"
    /\ \E i \in 1..Len(buques_atendidos) :
          LET b == buque[buques_atendidos[i]]
          IN  b.inicio_descarga + b.tiempo_descarga = now
    /\ \E s \in 1..MaxBuques :
          /\ users["frente_atraque"] = {B(s)}
          /\ buque[s].arribo < now

\* Process p is scheduled to resume at instant t.
Citado(p, t) == \E j \in 1..Len(queue) : queue[j] = Ev(t, 2, "resume", p)

CitadoEn(q, p, t) == \E j \in 1..Len(q) : q[j] = Ev(t, 2, "resume", p)

\* C26: the unloading of a ship ends at the withdrawal that empties the dock,
\* not at the end of that truck's loading. In the step in which the ship is
\* resumed by fin_descarga_evento the dock is empty, the ship clears
\* current_buque, is appended to buques_atendidos and releases the berth, its
\* tiempo_descarga ends at this instant, and a truck that loaded at this
\* instant is still at its chute for TIEMPO_CARGAR_EN_CHUTE more. And once
\* an instant is complete, a ship still waiting for the end of its unloading
\* has grain left on the dock.
C26_Cierre ==
    [][/\ \A s \in 1..MaxBuques :
            (buque[s].pc = "descarga" /\ buque'[s].pc = "fin") =>
                /\ grano_muelle' = 0
                /\ current_buque' = 0
                /\ buques_atendidos' = Append(buques_atendidos, s)
                /\ B(s) \notin users'["frente_atraque"]
                /\ buque'[s].tiempo_descarga = now' - buque[s].inicio_descarga
                /\ \E p \in users'["chutes"] :
                      CitadoEn(queue', p, now' + TIEMPO_CARGAR_EN_CHUTE)
       /\ \A s \in 1..MaxBuques :
            (buque'[s].pc = "descarga" /\ estado' = "run"
               /\ (queue' = <<>> \/ Head(queue').t > now'))
            => grano_muelle' > 0]_vars

\* A ship whose unloading took time has just been closed at this instant,
\* with the dock empty and the truck that emptied it still loading at its
\* chute.
C26_Witness ==
    /\ grano_muelle = 0
    /\ \E i \in 1..Len(buques_atendidos) :
          LET b == buque[buques_atendidos[i]]
          IN  /\ b.tiempo_descarga > 0
              /\ b.inicio_descarga + b.tiempo_descarga = now
    /\ \E c \in 1..MaxCamiones :
          /\ camion[c].pc = "cargando" /\ camion[c].carga > 0
          /\ C(c) \in users["chutes"]
          /\ Citado(C(c), now + TIEMPO_CARGAR_EN_CHUTE)

\* The meal-break intervals [a, b) of the day, as <<a, b>>.
Ventanas == {<<1, 3>>, <<3, 4>>, <<5, 6>>, <<7, 8>>}

\* The meal-break check of a truck p was evaluated in this step, at minute m
\* of the day: inside an interval the truck sleeps exactly until its right
\* edge (sigue tells whether it does) and keeps its chute; outside, it does
\* not sleep.
Guarda(p, m, sigue) ==
    IF \E w \in Ventanas : w[1] <= m /\ m < w[2]
    THEN /\ sigue
         /\ p \in users'["chutes"]
         /\ \E w \in Ventanas :
               /\ w[1] <= m /\ m < w[2]
               /\ CitadoEn(queue', p, now' + (w[2] - m))
    ELSE ~sigue

\* C28: when an ordinary or a dedicated truck evaluates the meal-break check
\* at minute m of the day inside one of the intervals, it sleeps exactly
\* until the right edge of that interval, holding its chute, and resumes
\* there; outside the intervals it does not sleep; its load is the same
\* before and after the break.
C28_Colacion ==
    [][/\ \A c \in 1..MaxCamiones :
            /\ (camion[c].pc = "en_chute" /\ camion'[c].pc # "en_chute")
                  => /\ Guarda(C(c), now' % DIA, camion'[c].pc = "colacion")
                     /\ camion'[c].pc = "colacion" => camion'[c].carga = camion[c].carga
            /\ (camion[c].pc = "colacion" /\ camion'[c].pc # "colacion")
                  => /\ \E w \in Ventanas : now' % DIA = w[2] % DIA
                     /\ C(c) \in users["chutes"]
                     /\ camion'[c].carga = camion[c].carga
       /\ \A d \in 1..MaxDedicados :
            /\ (dedicado[d].pc = "req_chute" /\ dedicado'[d].pc # "req_chute")
                  => /\ Guarda(D(d), now' % DIA, dedicado'[d].pc = "colacion")
                     /\ dedicado'[d].pc = "colacion"
                           => dedicado'[d].carga = dedicado[d].carga
            /\ (dedicado[d].pc = "colacion" /\ dedicado'[d].pc # "colacion")
                  => /\ \E w \in Ventanas : now' % DIA = w[2] % DIA
                     /\ D(d) \in users["chutes"]
                     /\ dedicado'[d].carga = dedicado[d].carga]_vars

\* An ordinary truck checked at the left edge of the two-unit interval and
\* sleeps the whole interval at its chute.
C28_Witness ==
    \E c \in 1..MaxCamiones :
        /\ camion[c].pc = "colacion"
        /\ now % DIA = 1
        /\ Citado(C(c), now + 2)
        /\ C(c) \in users["chutes"]

\* The ordinary-truck generator.
GCP == G("generar_camiones_puerto")

\* The Initialize event of process p is in heap q at instant t.
CitadoEnUrgente(q, p, t) == \E j \in 1..Len(q) : q[j] = Ev(t, 1, "resume", p)

C30_Puerta ==
    [][\A d \in 1..MaxDedicados :
          /\ \A i \in 1..Len(resq'["puerta_entrada"]) :
                resq'["puerta_entrada"][i] # D(d)
          /\ (dedicado[d].pc # "req_puerta" /\ dedicado'[d].pc = "req_puerta")
                => /\ dedicado[d].pc = "demora"
                   /\ users["puerta_entrada"] = {}
                   /\ resq["puerta_entrada"] = <<>>
                   /\ users'["puerta_entrada"] = {D(d)}
                   /\ CitadoEn(queue', D(d), now')
          /\ (dedicado[d].pc = "demora" /\ dedicado'[d].pc # "demora"
                /\ (users["puerta_entrada"] # {} \/ resq["puerta_entrada"] # <<>>))
                => /\ dedicado'[d].pc = "espera_falta"
                   /\ \E i \in 1..Len(espera'["falta_camiones_event"]) :
                         espera'["falta_camiones_event"][i] = D(d)
                   /\ users' = users /\ resq' = resq]_vars

\* Two dedicated trucks woken by the same firing ended their sleep at this
\* instant: the first one holds the gate, its grant still to be processed,
\* and the second one is back waiting on falta_camiones_event.
C30_Witness ==
    /\ now = PERIODO_MONITOR_CAMIONES + DEMORA_DEDICADO
    /\ dedicado[1].pc = "req_puerta"
    /\ users["puerta_entrada"] = {D(1)}
    /\ Citado(D(1), now)
    /\ dedicado[2].pc = "espera_falta"
    /\ \E i \in 1..Len(espera["falta_camiones_event"]) :
          espera["falta_camiones_event"][i] = D(2)

\* The trucks credited to ship s.
Camiones(b) == b.num_camiones_normales + b.num_camiones_dedicados

\* C31: the truck counters of a ship change only while it is current_buque,
\* by one at a time; once a ship is in buques_atendidos none of its fields
\* changes again.
C31_Contadores ==
    [][\A s \in 1..MaxBuques :
          /\ Camiones(buque'[s]) # Camiones(buque[s])
                => /\ current_buque = s
                   /\ Camiones(buque'[s]) = Camiones(buque[s]) + 1
          /\ buque[s].pc = "fin" => buque'[s] = buque[s]]_vars

\* A served ship keeps its count while trucks are credited to the ship that
\* followed it at the berth.
C31_Witness ==
    \E s, r \in 1..MaxBuques :
        /\ buque[s].pc = "fin" /\ Camiones(buque[s]) > 0
        /\ current_buque = r /\ r # s /\ Camiones(buque[r]) > 0

\* The program points of a dedicated truck between the credit of its load at
\* the dock and its deposit in the warehouse.
Cargado32 == {"cargando", "a_bodega", "req_bodega", "descargando", "put"}

\* C32: in every cycle of a dedicated truck what goes into grano_bodega is
\* what the truck withdrew from grano_muelle in that cycle: the level of the
\* warehouse rises only by the put of a truck that holds
\* descargar_en_bodega, by the load it carries, which is its withdrawal; the
\* deposit logged is that amount; and the load is 0 again from the log to
\* the next withdrawal.
C32_Ciclo ==
    [][/\ grano_bodega' > grano_bodega
            => \E d \in 1..MaxDedicados :
                  /\ dedicado[d].pc = "descargando" /\ dedicado'[d].pc = "put"
                  /\ D(d) \in users["descargar_en_bodega"]
                  /\ grano_bodega' - grano_bodega = dedicado[d].pedido
       /\ \A d \in 1..MaxDedicados :
            /\ dedicado'[d].pc \in Cargado32
                  => /\ dedicado'[d].carga = dedicado'[d].pedido
                     /\ dedicado'[d].carga > 0
            /\ dedicado'[d].pc \notin Cargado32 \cup {"error"}
                  => dedicado'[d].carga = 0
            /\ (dedicado[d].pc = "put" /\ dedicado'[d].pc # "put")
                  => /\ dedicado'[d].pc = "salida_bodega"
                     /\ Len(eventos_bodega') = Len(eventos_bodega) + 1
                     /\ eventos_bodega'[Len(eventos_bodega')].id_camion = D(d)
                     /\ eventos_bodega'[Len(eventos_bodega')].depositadas
                           = dedicado[d].pedido
                     /\ D(d) \notin users'["descargar_en_bodega"]
                     /\ grano_bodega' = grano_bodega
            /\ (dedicado[d].pc = "descargando" /\ dedicado'[d].pc # "descargando")
                  => grano_bodega' = grano_bodega + dedicado[d].pedido]_vars

\* A dedicated truck completed a cycle, its deposit logged, and loaded again
\* at the dock.
C32_Witness ==
    \E d \in 1..MaxDedicados :
        /\ \E i \in 1..Len(eventos_bodega) :
              /\ eventos_bodega[i].id_camion = D(d)
              /\ eventos_bodega[i].depositadas > 0
        /\ dedicado[d].pc = "cargando"
        /\ dedicado[d].carga > 0

\* C33: a truck whose withdrawal from the dock is under way (the get is
\* issued, the truck not yet resumed to credit it) always finds a current
\* ship: current_buque is not None, it is a ship that dumped and is not
\* closed, and the step that credits the load does not raise.
C33_Credito ==
    [][/\ \A c \in 1..MaxCamiones :
            /\ camion'[c].pc = "get"
                  => current_buque' # 0 /\ EnDescarga(current_buque)'
            /\ camion[c].pc = "get" => camion'[c].pc \in {"get", "cargando"}
       /\ \A d \in 1..MaxDedicados :
            /\ dedicado'[d].pc = "get"
                  => current_buque' # 0 /\ EnDescarga(current_buque)'
            /\ dedicado[d].pc = "get" => dedicado'[d].pc \in {"get", "cargando"}]_vars

\* A truck that arrived at the instant of the dump emptied the dock before
\* the ship was resumed to fire inicio_descarga_evento, on which another
\* truck waits.
C33_Witness ==
    /\ current_buque # 0
    /\ buque[current_buque].pc = "put"
    /\ grano_muelle = 0
    /\ \E c \in 1..MaxCamiones : camion[c].pc = "get"
    /\ espera["inicio_descarga_evento"] # <<>>

\* C34: with prob < 1 and positive tonnages and capacities, a ship that has
\* been granted the berth is eventually woken by fin_descarga_evento and
\* releases the berth. The run must then never be aborted while a ship that
\* raised nothing holds the berth: an aborted run takes no further step, so
\* the ship is never woken.
C34_Despierta ==
    (/\ param.prob < 100
     /\ \A s \in 1..MaxBuques : buque[s].pc # "error"
     /\ \E s \in 1..MaxBuques :
           /\ current_buque = s
           /\ buque[s].pc \in {"put", "descarga"})
    => estado # "error"

\* C35: grain lies on the dock only while the current ship is in its unload
\* window (it has dumped and has not been closed); so the dock is empty
\* whenever the berth changes hands.
C35_Ventana ==
    [][/\ grano_muelle' > 0 => (current_buque # 0 /\ EnDescarga(current_buque))'
       /\ users'["frente_atraque"] # users["frente_atraque"]
            => grano_muelle = 0 /\ grano_muelle' = 0]_vars

C35_Witness ==
    /\ current_buque # 0
    /\ buque[current_buque].pc = "descarga"
    /\ grano_muelle > 0
    /\ grano_muelle < buque[current_buque].tonelaje
    /\ buques_atendidos # <<>>

\* C36: no get on grano_muelle or on grano_bodega ever blocks: a truck that
\* issues a get asks for a positive amount that is at most the level at the
\* call, and the level drops by that amount in the same step; the levels
\* never go below zero.
C36_SinBloqueo ==
    [][/\ \A c \in 1..MaxCamiones :
            (camion[c].pc # "get" /\ camion'[c].pc = "get")
            => /\ 0 < camion'[c].pedido /\ camion'[c].pedido <= grano_muelle
               /\ grano_muelle' = grano_muelle - camion'[c].pedido
       /\ \A d \in 1..MaxDedicados :
            (dedicado[d].pc # "get" /\ dedicado'[d].pc = "get")
            => /\ 0 < dedicado'[d].pedido /\ dedicado'[d].pedido <= grano_muelle
               /\ grano_muelle' = grano_muelle - dedicado'[d].pedido
       /\ \A b \in 1..MaxCamionesBodega :
            (cbodega[b].pc # "get" /\ cbodega'[b].pc = "get")
            => /\ 0 < cbodega'[b].pedido /\ cbodega'[b].pedido <= grano_bodega
               /\ grano_bodega' = grano_bodega - cbodega'[b].pedido
       /\ grano_muelle' >= 0 /\ grano_bodega' >= 0]_vars

C36_Witness ==
    /\ \E c \in 1..MaxCamiones :
          /\ camion[c].pc = "get"
          /\ camion[c].pedido < camion[c].capacidad
          /\ grano_muelle = 0
    /\ \E b \in 1..MaxCamionesBodega : cbodega[b].carga > 0

\* The minute of the day t lies inside a meal-break interval.
EnColacion(t) == \E v \in Ventanas : v[1] <= t % DIA /\ t % DIA < v[2]

\* C37: no truck withdraws grain from the dock at an instant inside a
\* meal-break interval, the trucks woken by inicio_descarga_evento included.
C37_SinRetiro == [][grano_muelle' < grano_muelle => ~EnColacion(now')]_vars

\* C38: an ordinary truck is credited to the ship that was current_buque when
\* the truck was created; a truck that waits at its chute for the next dump
\* is not credited to the later ship.
C38_Origen ==
    [][\A c \in 1..MaxCamiones :
         (/\ camion[c].pc = "get" /\ camion'[c].pc = "cargando"
          /\ camion[c].origen # 0)
         => buque'[camion[c].origen].num_camiones_normales
              = buque[camion[c].origen].num_camiones_normales + 1]_vars

\* C39: the tiempo_espera of a ship that moored is the time it queued for the
\* berth plus TIEMPO_ATRAQUE, hence at least TIEMPO_ATRAQUE: a ship granted
\* the berth on arrival records TIEMPO_ATRAQUE, never 0.
C39_Espera ==
    \A s \in 1..MaxBuques :
       buque[s].primera_espia # -1
       => /\ buque[s].otorgado >= buque[s].arribo
          /\ buque[s].tiempo_espera
               = (buque[s].otorgado - buque[s].arribo) + TIEMPO_ATRAQUE
          /\ buque[s].tiempo_espera >= TIEMPO_ATRAQUE
          /\ buque[s].otorgado = buque[s].arribo
               => buque[s].tiempo_espera = TIEMPO_ATRAQUE

C39_Witness ==
    \E s, r \in 1..MaxBuques :
       /\ buque[s].pc = "fin"
       /\ buque[s].otorgado = buque[s].arribo
       /\ buque[s].tiempo_espera = TIEMPO_ATRAQUE
       /\ buque[r].pc = "fin"
       /\ buque[r].otorgado > buque[r].arribo
       /\ buque[r].tiempo_espera > TIEMPO_ATRAQUE

\* C40: a truck that loads at the warehouse always withdraws a positive
\* load: from the moment it starts its loading time until its get, nobody
\* else lowers grano_bodega, since only the holder of cargar_en_bodega
\* withdraws; no such truck raises and every logged load is positive.
C40_CargaPositiva ==
    [][/\ \A b \in 1..MaxCamionesBodega :
            /\ cbodega'[b].pc # "error"
            /\ cbodega'[b].pc = "cargando" => grano_bodega' > 0
            /\ (cbodega[b].pc = "cargando" /\ cbodega'[b].pc = "cargando")
                 => grano_bodega' >= grano_bodega
       /\ grano_bodega' < grano_bodega
            => \E b \in 1..MaxCamionesBodega :
                  /\ users["cargar_en_bodega"] = {CB(b)}
                  /\ cbodega[b].pc = "cargando" /\ cbodega'[b].pc = "get"
       /\ \A i \in 1..Len(eventos_bodega') :
            eventos_bodega'[i].actividad = "cargar en bodega"
            => eventos_bodega'[i].retiradas > 0]_vars

C40_Witness ==
    /\ \E i \in 1..Len(eventos_bodega) :
          /\ eventos_bodega[i].actividad = "cargar en bodega"
          /\ eventos_bodega[i].retiradas > 0
          /\ eventos_bodega[i].restante = 0
    /\ \E b \in 1..MaxCamionesBodega :
          /\ cbodega[b].pc = "cargando"
          /\ users["cargar_en_bodega"] = {CB(b)}

=============================================================================
